---- MODULE Spec2Model ----
(***************************************************************************)
(* Model of scripts/raman_wrapper.py: the ORCA Raman pipeline              *)
(*   gerar_input_orca -> rodar_orca -> parse_raman_output ->               *)
(*   fator_temperatura / converter_cm_inv_para_nm_deslocado -> savefig.    *)
(*                                                                         *)
(* Text is a sequence of one-character strings, a file is a sequence of    *)
(* lines as f.readlines() / "for line in f" yield them (each line keeps    *)
(* its "\n", the last line of a file may lack it).                         *)
(*                                                                         *)
(* Numbers are fixed point.  A wavenumber is an integer count of 1e-7      *)
(* cm^-1, a wavelength an integer count of 1e5 nm, so that the program's   *)
(* 1e7 (nm.cm^-1) is 10^9 and its 1e-6 (cm^-1) is 10 in model units.       *)
(***************************************************************************)
EXTENDS Integers, Sequences, FiniteSets, TLC

VARIABLES
    pc,                  \* control point of the running function
    exc,                 \* the exception that ended the run, or "none"
    molecule,            \* content of the geometry file (sequence of lines)
    jobname,             \* main's jobname parameter (text)
    plot_raman_shift,    \* main's plot_raman_shift parameter
    laser_wavelength_nm, \* laser wavelength parameter
    modo,                \* converter's modo parameter (text)
    inp_file,            \* path returned by gerar_input_orca, <<>> before
    inp_content,         \* text written to inp_file
    orca,                \* what happened to the external program
    out_file,            \* path computed by rodar_orca, <<>> before
    out_lines,           \* content of the output file (sequence of lines)
    pos,                 \* number of lines the scan loop has consumed
    raman_section_found, \* parse_raman_output's flag
    freq_cm,             \* parse_raman_output's result list / converter input
    activity,            \* parse_raman_output's result list
    rows,                \* history: line numbers whose match was appended
    lambda_espalhada_nm, \* result of the converter
    printed,             \* messages printed by main, in order
    fig                  \* the figure file written by savefig, or NoFig

vars == <<pc, exc, molecule, jobname, plot_raman_shift, laser_wavelength_nm,
          modo, inp_file, inp_content, orca, out_file, out_lines, pos,
          raman_section_found, freq_cm, activity, rows, lambda_espalhada_nm,
          printed, fig>>

geomVars == <<molecule, jobname, plot_raman_shift, laser_wavelength_nm, modo>>
inpVars == <<inp_file, inp_content>>
runVars == <<orca, out_file, out_lines>>
scanVars == <<pos, raman_section_found, freq_cm, activity, rows>>
plotVars == <<lambda_espalhada_nm, printed, fig>>

---------------------------------------------------------------------------
(* Bounds of the model *)

MaxLines == 4

MaxRowLines == 3

MaxAtoms == 2

MaxJob == 5

MaxOutLines == 3

MaxFreqs == 2

MaxWN == 12

---------------------------------------------------------------------------
(* Text helpers: the str methods and re classes the program uses *)

Digits == <<"0", "1", "2", "3", "4", "5", "6", "7", "8", "9">>

\* \s
Space == {" ", "\t", "\n", "\r"}

\* \d
Digit == {Digits[d] : d \in 1..10}

\* [\d\.]
NumChar == Digit \cup {"."}

IsSpace(c) == c \in Space

IsDigit(c) == c \in Digit

IsNumChar(c) == c \in NumChar

DigitVal(c) == (CHOOSE d \in 1..10 : Digits[d] = c) - 1

\* first position >= i whose character is outside class C (Len(s)+1 if none):
\* the end of a greedy run of C starting at i
RunEnd(s, i, C) ==
    CHOOSE j \in i..(Len(s) + 1) :
        /\ \A k \in i..(j - 1) : s[k] \in C
        /\ (j = Len(s) + 1 \/ s[j] \notin C)

\* str.strip()
Strip(s) ==
    LET a == RunEnd(s, 1, Space)
    IN  IF a > Len(s) THEN <<>>
        ELSE LET b == CHOOSE j \in a..Len(s) :
                          /\ ~IsSpace(s[j])
                          /\ \A k \in (j + 1)..Len(s) : IsSpace(s[k])
             IN  SubSeq(s, a, b)

\* str.startswith(p)
StartsWith(s, p) == Len(s) >= Len(p) /\ SubSeq(s, 1, Len(p)) = p

\* "sub in s"
Contains(s, sub) ==
    \E i \in 0..(Len(s) - Len(sub)) : SubSeq(s, i + 1, i + Len(sub)) = sub

\* concatenation of a sequence of texts
RECURSIVE Flatten(_)
Flatten(ss) == IF ss = <<>> THEN <<>> ELSE Head(ss) \o Flatten(Tail(ss))

---------------------------------------------------------------------------
(* parse_raman_output: the row pattern and float() *)

MARKER == <<"R", "A", "M", "A", "N", " ", "S", "P", "E", "C", "T", "R", "U", "M">>

MODE == <<"M", "o", "d", "e">>

DASHES == <<"-", "-", "-">>

NoMatch == [ok |-> FALSE]

\* re.compile(r'^\s*(\d+):\s+([\d\.]+)\s+([\d\.]+)\s+([\d\.]+)').match(line).
\* Every class is followed by a disjoint one, so the greedy runs are the only
\* way to match; nothing anchors the end of the line.
pattern(line) ==
    LET n == Len(line)
        a == RunEnd(line, 1, Space)
        b == RunEnd(line, a, Digit)
        c == RunEnd(line, b + 1, Space)
        d == RunEnd(line, c, NumChar)
        e == RunEnd(line, d, Space)
        f == RunEnd(line, e, NumChar)
        g == RunEnd(line, f, Space)
        h == RunEnd(line, g, NumChar)
    IN  IF /\ b > a /\ b <= n /\ line[b] = ":"
           /\ c > b + 1
           /\ d > c
           /\ e > d
           /\ f > e
           /\ g > f
           /\ h > g
        THEN [ok |-> TRUE,
              mode_index_str |-> SubSeq(line, a, b - 1),
              freq_str |-> SubSeq(line, c, d - 1),
              act_str |-> SubSeq(line, e, f - 1),
              depol_str |-> SubSeq(line, g, h - 1)]
        ELSE NoMatch

\* one wavenumber unit of the model is 1e-7 cm^-1
WNScale == 10 ^ 7

Dots(s) == Cardinality({i \in 1..Len(s) : s[i] = "."})

\* float(s) raises ValueError unless s is a decimal literal; on the strings
\* the pattern captures (digits and dots) that is: one dot at most and a digit
FloatRaises(s) ==
    \/ \E i \in 1..Len(s) : ~IsNumChar(s[i])
    \/ Dots(s) > 1
    \/ \A i \in 1..Len(s) : s[i] = "."

RECURSIVE IntOf(_)
IntOf(ds) ==
    IF ds = <<>> THEN 0
    ELSE 10 * IntOf(SubSeq(ds, 1, Len(ds) - 1)) + DigitVal(ds[Len(ds)])

RECURSIVE FracOf(_, _)
FracOf(ds, place) ==
    IF ds = <<>> \/ place = 0 THEN 0
    ELSE DigitVal(Head(ds)) * (10 ^ (place - 1)) + FracOf(Tail(ds), place - 1)

\* float(s) for a string on which it does not raise, in wavenumber units
float(s) ==
    LET dot == RunEnd(s, 1, Digit)
    IN  IntOf(SubSeq(s, 1, dot - 1)) * WNScale
            + FracOf(SubSeq(s, dot + 1, Len(s)), 7)

\* the test of lines 86-88
Skippable(line) ==
    \/ StartsWith(Strip(line), DASHES)
    \/ Len(Strip(line)) = 0
    \/ Contains(line, MODE)

---------------------------------------------------------------------------
(* The lines an output file is made of *)

\* the section title: 'RAMAN SPECTRUM\n'
LineMarker ==
    <<"R", "A", "M", "A", "N", " ", "S", "P", "E", "C", "T", "R", "U", "M",
      "\n">>

\* an empty line: '\n'
LineBlank ==
    <<"\n">>

\* a dash rule: ' ---\n'
LineRule ==
    <<" ", "-", "-", "-", "\n">>

\* the table header: 'Mode f\n'
LineHeader ==
    <<"M", "o", "d", "e", " ", "f", "\n">>

\* a row: '1: 1.5 0.2 0.3\n'
RowA ==
    <<"1", ":", " ", "1", ".", "5", " ", "0", ".", "2", " ", "0", ".", "3",
      "\n">>

\* a row, indented: ' 2: 20.0 4.5 0.6\n'
RowB ==
    <<" ", "2", ":", " ", "2", "0", ".", "0", " ", "4", ".", "5", " ", "0",
      ".", "6", "\n">>

\* a row with a negative frequency: '3: -1.5 0.2 0.3\n'
RowNegative ==
    <<"3", ":", " ", "-", "1", ".", "5", " ", "0", ".", "2", " ", "0", ".",
      "3", "\n">>

\* a row with an exponent in the frequency: '4: 1e2 0.2 0.3\n'
RowExponent ==
    <<"4", ":", " ", "1", "e", "2", " ", "0", ".", "2", " ", "0", ".", "3",
      "\n">>

\* a row whose frequency has two decimal points: '5: 1.2.3 0.2 0.3\n'
RowTwoDots ==
    <<"5", ":", " ", "1", ".", "2", ".", "3", " ", "0", ".", "2", " ", "0",
      ".", "3", "\n">>

\* a row whose activity is a lone dot: '6: 2.5 . 0.3\n'
RowOnlyDot ==
    <<"6", ":", " ", "2", ".", "5", " ", ".", " ", "0", ".", "3", "\n">>

\* a row whose depolarization is 0..e1: '7: 3.5 0.7 0..e1\n'
RowDepolTail ==
    <<"7", ":", " ", "3", ".", "5", " ", "0", ".", "7", " ", "0", ".", ".",
      "e", "1", "\n">>

\* a row that also holds the section title: '8: 4.5 0.8 0.9 RAMAN SPECTRUM\n'
RowWithMarker ==
    <<"8", ":", " ", "4", ".", "5", " ", "0", ".", "8", " ", "0", ".", "9",
      " ", "R", "A", "M", "A", "N", " ", "S", "P", "E", "C", "T", "R", "U",
      "M", "\n">>

\* free text: 'end\n'
LineText ==
    <<"e", "n", "d", "\n">>

OutputLines ==
    {LineMarker, LineBlank, LineRule, LineHeader, RowA,
     RowB, RowNegative, RowExponent, RowTwoDots, RowOnlyDot,
     RowDepolTail, RowWithMarker, LineText}

\* the lines of the exhaustive scans: one line of each kind
ScanLines ==
    {LineMarker, LineBlank, LineRule, LineHeader, RowA, RowB,
     RowNegative, RowTwoDots, RowDepolTail, RowWithMarker, LineText}

\* every file of at most n lines
FilesOf(alphabet, n) == UNION {[1..k -> alphabet] : k \in 0..n}

---------------------------------------------------------------------------
(* parse_raman_output, one action per way through the loop body *)

NoFig == [written |-> FALSE]

\* the line "for line in f" yields next
Cur == out_lines[pos + 1]

Scanning == pc = "parse" /\ pos < Len(out_lines)

\* mutant of ScanMarker: a title line starts the result lists afresh
ScanMarkerRestarts ==
    /\ Scanning
    /\ Contains(Cur, MARKER)
    /\ raman_section_found' = TRUE
    /\ freq_cm' = <<>>
    /\ activity' = <<>>
    /\ rows' = <<>>
    /\ pos' = pos + 1
    /\ UNCHANGED <<pc, exc>>
    /\ UNCHANGED <<geomVars, inpVars, runVars, plotVars>>

\* lines 80-82: a line holding the title sets the flag and is consumed
ScanMarker ==
    /\ Scanning
    /\ Contains(Cur, MARKER)
    /\ raman_section_found' = TRUE
    /\ pos' = pos + 1
    /\ UNCHANGED <<pc, exc, freq_cm, activity, rows>>
    /\ UNCHANGED <<geomVars, inpVars, runVars, plotVars>>

\* mutant of ScanBefore: the flag test of line 84 is missing, a matching
\* line is appended wherever it stands
ScanBeforeAppends ==
    /\ Scanning
    /\ ~Contains(Cur, MARKER)
    /\ ~raman_section_found
    /\ LET match == pattern(Cur)
           hit == /\ match.ok
                  /\ ~FloatRaises(match.freq_str)
                  /\ ~FloatRaises(match.act_str)
       IN  /\ freq_cm' = IF hit THEN Append(freq_cm, float(match.freq_str))
                         ELSE freq_cm
           /\ activity' = IF hit THEN Append(activity, float(match.act_str))
                          ELSE activity
           /\ rows' = IF hit THEN Append(rows, pos + 1) ELSE rows
    /\ pos' = pos + 1
    /\ UNCHANGED <<pc, exc, raman_section_found>>
    /\ UNCHANGED <<geomVars, inpVars, runVars, plotVars>>

\* line 84, flag unset: the line is passed over
ScanBefore ==
    /\ Scanning
    /\ ~Contains(Cur, MARKER)
    /\ ~raman_section_found
    /\ pos' = pos + 1
    /\ UNCHANGED <<pc, exc, raman_section_found, freq_cm, activity, rows>>
    /\ UNCHANGED <<geomVars, inpVars, runVars, plotVars>>

\* lines 86-89: rule, blank line or header inside the section
ScanSkip ==
    /\ Scanning
    /\ ~Contains(Cur, MARKER)
    /\ raman_section_found
    /\ Skippable(Cur)
    /\ pos' = pos + 1
    /\ UNCHANGED <<pc, exc, raman_section_found, freq_cm, activity, rows>>
    /\ UNCHANGED <<geomVars, inpVars, runVars, plotVars>>

\* lines 91-97: the line matches and both conversions succeed
ScanAppend ==
    /\ Scanning
    /\ ~Contains(Cur, MARKER)
    /\ raman_section_found
    /\ ~Skippable(Cur)
    /\ LET match == pattern(Cur)
       IN  /\ match.ok
           /\ ~FloatRaises(match.freq_str)
           /\ ~FloatRaises(match.act_str)
           /\ freq_cm' = Append(freq_cm, float(match.freq_str))
           /\ activity' = Append(activity, float(match.act_str))
    /\ rows' = Append(rows, pos + 1)
    /\ pos' = pos + 1
    /\ UNCHANGED <<pc, exc, raman_section_found>>
    /\ UNCHANGED <<geomVars, inpVars, runVars, plotVars>>

\* lines 94-95: the line matches and float() raises ValueError, which
\* nothing catches
ScanValueError ==
    /\ Scanning
    /\ ~Contains(Cur, MARKER)
    /\ raman_section_found
    /\ ~Skippable(Cur)
    /\ LET match == pattern(Cur)
       IN  /\ match.ok
           /\ FloatRaises(match.freq_str) \/ FloatRaises(match.act_str)
    /\ pc' = "raised"
    /\ exc' = "ValueError"
    /\ pos' = pos + 1
    /\ UNCHANGED <<raman_section_found, freq_cm, activity, rows>>
    /\ UNCHANGED <<geomVars, inpVars, runVars, plotVars>>

\* mutant of ScanBreak: continue where line 100 has break
ScanBreakContinues ==
    /\ Scanning
    /\ ~Contains(Cur, MARKER)
    /\ raman_section_found
    /\ ~Skippable(Cur)
    /\ ~pattern(Cur).ok
    /\ pos' = pos + 1
    /\ UNCHANGED <<pc, exc, raman_section_found, freq_cm, activity, rows>>
    /\ UNCHANGED <<geomVars, inpVars, runVars, plotVars>>

\* lines 98-100 and 102: no match, break, return
ScanBreak ==
    /\ Scanning
    /\ ~Contains(Cur, MARKER)
    /\ raman_section_found
    /\ ~Skippable(Cur)
    /\ ~pattern(Cur).ok
    /\ pc' = "parsed"
    /\ pos' = pos + 1
    /\ UNCHANGED <<exc, raman_section_found, freq_cm, activity, rows>>
    /\ UNCHANGED <<geomVars, inpVars, runVars, plotVars>>

\* lines 78 and 102: the file is exhausted, return
ScanEnd ==
    /\ pc = "parse"
    /\ pos = Len(out_lines)
    /\ pc' = "parsed"
    /\ UNCHANGED <<exc, scanVars>>
    /\ UNCHANGED <<geomVars, inpVars, runVars, plotVars>>

ParseNext ==
    \/ ScanMarker
    \/ ScanBefore
    \/ ScanSkip
    \/ ScanAppend
    \/ ScanValueError
    \/ ScanBreak
    \/ ScanEnd

\* lines 68-69 and 75: the locals at the start of the scan
ScanStart ==
    /\ pos = 0
    /\ raman_section_found = FALSE
    /\ freq_cm = <<>>
    /\ activity = <<>>
    /\ rows = <<>>

\* nothing has run yet
Fresh ==
    /\ exc = "none"
    /\ inp_file = <<>>
    /\ inp_content = <<>>
    /\ orca = "none"
    /\ out_file = <<>>
    /\ lambda_espalhada_nm = <<>>
    /\ printed = <<>>
    /\ fig = NoFig

\* parse_raman_output entered directly: main's parameters play no part
ParseCall ==
    /\ pc = "parse"
    /\ ScanStart
    /\ Fresh
    /\ molecule = <<>>
    /\ jobname = <<>>
    /\ plot_raman_shift = FALSE
    /\ laser_wavelength_nm = 1
    /\ modo = <<>>

\* parse_raman_output called on any file of at most MaxLines lines
InitParse == ParseCall /\ out_lines \in FilesOf(ScanLines, MaxLines)

SpecParse == InitParse /\ [][ParseNext]_vars

\* the same with every kind of malformed row, on files one line shorter
InitParseAll ==
    ParseCall /\ out_lines \in FilesOf(OutputLines, MaxRowLines)

SpecParseAll == InitParseAll /\ [][ParseNext]_vars

---------------------------------------------------------------------------
(* gerar_input_orca *)

\* the default method and basis parameters (lines 9-10)
Method == <<"B", "P", "8", "6">>

Basis == <<"d", "e", "f", "2", "-", "S", "V", "P">>

\* the template of lines 27-34 around method and basis
Header(method, basis) ==
    <<"!", " ">> \o method \o <<" ">> \o basis \o
    <<" ", "O", "P", "T", " ", "N", "U", "M", "F", "R", "E", "Q", "\n", "\n",
      "%", "e", "l", "p", "r", "o", "p", "\n", " ", " ", " ", "P", "O", "L",
      "A", "R", " ", "1", "\n", "e", "n", "d", "\n", "\n", "*", " ", "x",
      "y", "z", " ", "0", " ", "1", "\n">>

EXT_INP == <<".", "i", "n", "p">>

EXT_OUT == <<".", "o", "u", "t">>

\* int(s) raises ValueError unless s is an optionally signed run of digits
IntRaises(s) ==
    LET t == IF s # <<>> /\ s[1] \in {"+", "-"} THEN Tail(s) ELSE s
    IN  t = <<>> \/ \E i \in 1..Len(t) : ~IsDigit(t[i])

int(s) ==
    IF s[1] = "-" THEN 0 - IntOf(Tail(s))
    ELSE IF s[1] = "+" THEN IntOf(Tail(s))
    ELSE IntOf(s)

\* xs[start:stop] for start >= 0
PySlice(xs, start, stop) ==
    LET n == Len(xs)
        hi == IF stop < 0 THEN (IF stop + n < 0 THEN 0 ELSE stop + n)
              ELSE IF stop > n THEN n ELSE stop
        lo == IF start > n THEN n ELSE start
    IN  IF lo < hi THEN SubSeq(xs, lo + 1, hi) ELSE <<>>

\* lines 19-45 and main's line 165: the input file is written
GerarWrite ==
    /\ pc = "gerar"
    /\ molecule # <<>>
    /\ ~IntRaises(Strip(molecule[1]))
    /\ LET natoms == int(Strip(molecule[1]))
           coords == PySlice(molecule, 2, 2 + natoms)
       IN  inp_content' =
               Header(Method, Basis) \o Flatten(coords) \o <<"*", "\n">>
    /\ inp_file' = jobname \o EXT_INP
    /\ printed' = Append(printed, "input criado")
    /\ pc' = "rodar"
    /\ UNCHANGED <<exc, geomVars, runVars, scanVars, lambda_espalhada_nm, fig>>

\* line 23: the first line is not an integer
GerarValueError ==
    /\ pc = "gerar"
    /\ molecule # <<>>
    /\ IntRaises(Strip(molecule[1]))
    /\ exc' = "ValueError"
    /\ pc' = "raised"
    /\ UNCHANGED <<geomVars, inpVars, runVars, scanVars, plotVars>>

\* line 23: the geometry file is empty
GerarIndexError ==
    /\ pc = "gerar"
    /\ molecule = <<>>
    /\ exc' = "IndexError"
    /\ pc' = "raised"
    /\ UNCHANGED <<geomVars, inpVars, runVars, scanVars, plotVars>>

---------------------------------------------------------------------------
(* rodar_orca *)

\* str.replace(old, new): every occurrence, left to right
RECURSIVE Replace(_, _, _)
Replace(s, old, new) ==
    IF s = <<>> THEN <<>>
    ELSE IF StartsWith(s, old)
         THEN new \o Replace(SubSeq(s, Len(old) + 1, Len(s)), old, new)
         ELSE <<Head(s)>> \o Replace(Tail(s), old, new)

\* line 54
OutFileOf(inp) == Replace(inp, EXT_INP, EXT_OUT)

\* the lines the external program may leave in the output file
OrcaLines == {LineMarker, LineBlank, RowA, RowTwoDots, LineText}

\* line 56, the program is found: it writes what it writes and exits with any
\* status; run() returns, nothing reads the status
SubprocessReturns ==
    /\ \E status \in {0, 1} :
           orca' = IF status = 0 THEN "exit zero" ELSE "exit nonzero"
    /\ out_lines' \in FilesOf(OrcaLines, MaxOutLines)
    /\ printed' = Append(printed, "calculo finalizado")
    /\ pc' = "parse"
    /\ exc' = exc

\* line 56, no orca executable on the PATH: run() raises FileNotFoundError
\* after line 55 has created the empty output file
SubprocessNotFound ==
    /\ orca' = "not installed"
    /\ out_lines' = <<>>
    /\ printed' = printed
    /\ pc' = "raised"
    /\ exc' = "FileNotFoundError"

\* lines 54-57 and main's line 169, the program is found
RodarRuns ==
    /\ pc = "rodar"
    /\ out_file' = OutFileOf(inp_file)
    /\ SubprocessReturns
    /\ UNCHANGED <<geomVars, inpVars, scanVars, lambda_espalhada_nm, fig>>

\* lines 54-56, the program is missing
RodarNotInstalled ==
    /\ pc = "rodar"
    /\ out_file' = OutFileOf(inp_file)
    /\ SubprocessNotFound
    /\ UNCHANGED <<geomVars, inpVars, scanVars, lambda_espalhada_nm, fig>>

---------------------------------------------------------------------------
(* converter_cm_inv_para_nm_deslocado *)

\* the program's 1e7 (nm per cm), in wavelength units times wavenumber units
TenToSeven == 10 ^ 9

\* the program's 1e-6 (cm^-1), in wavenumber units
Eps == WNScale \div (10 ^ 6)

UpperCase ==
    <<"A", "B", "C", "D", "E", "F", "G", "H", "I", "J", "K", "L", "M",
      "N", "O", "P", "Q", "R", "S", "T", "U", "V", "W", "X", "Y", "Z">>

LowerCase ==
    <<"a", "b", "c", "d", "e", "f", "g", "h", "i", "j", "k", "l", "m",
      "n", "o", "p", "q", "r", "s", "t", "u", "v", "w", "x", "y", "z">>

\* str.lower()
lower(s) ==
    [i \in 1..Len(s) |->
        IF \E k \in 1..26 : UpperCase[k] = s[i]
        THEN LowerCase[CHOOSE k \in 1..26 : UpperCase[k] = s[i]]
        ELSE s[i]]

STOKES == <<"s", "t", "o", "k", "e", "s">>

\* line 117
IsStokes(m) == lower(m) = STOKES

\* line 115
LaserCmInv(laser) == TenToSeven \div laser

\* lines 117-121, one element
Espalhada(f, laser, m) ==
    IF IsStokes(m) THEN LaserCmInv(laser) - f ELSE LaserCmInv(laser) + f

\* mutant of Clamp: only non-positive values are replaced
ClampNonPositive(x) == IF x <= 0 THEN Eps ELSE x

\* line 124, one element: np.where(x <= 1e-6, 1e-6, x)
Clamp(x) == IF x <= Eps THEN Eps ELSE x

\* line 125, one element: numpy's 1e7 / x is the exact quotient num / den,
\* or inf (with a warning) when x is zero
Inverse(x) ==
    IF x = 0 THEN [inf |-> TRUE, num |-> TenToSeven, den |-> 0]
    ELSE [inf |-> FALSE, num |-> TenToSeven, den |-> x]

\* lines 115-126
converter_cm_inv_para_nm_deslocado(fs, laser, m) ==
    [i \in 1..Len(fs) |-> Inverse(Clamp(Espalhada(fs[i], laser, m)))]

\* lines 194-196: the conversion step
Convert ==
    /\ pc = "convert"
    /\ lambda_espalhada_nm' =
           converter_cm_inv_para_nm_deslocado(freq_cm, laser_wavelength_nm, modo)
    /\ pc' = "plot"
    /\ UNCHANGED <<exc, geomVars, inpVars, runVars, scanVars, printed, fig>>

---------------------------------------------------------------------------
(* main after the parse *)

PNG ==
    <<"_", "r", "a", "m", "a", "n", "_", "s", "p", "e", "c", "t", "r", "u",
      "m", ".", "p", "n", "g">>

\* mutant of MainNoData: the return of line 175 is missing
MainNoDataGoesOn ==
    /\ pc = "parsed"
    /\ Len(freq_cm) = 0
    /\ printed' = Append(printed, "sem dados de Raman")
    /\ pc' = IF plot_raman_shift THEN "plot" ELSE "convert"
    /\ UNCHANGED <<exc, geomVars, inpVars, runVars, scanVars>>
    /\ UNCHANGED <<lambda_espalhada_nm, fig>>

\* lines 173-175: nothing parsed, message and return
MainNoData ==
    /\ pc = "parsed"
    /\ Len(freq_cm) = 0
    /\ printed' = Append(printed, "sem dados de Raman")
    /\ pc' = "done"
    /\ UNCHANGED <<exc, geomVars, inpVars, runVars, scanVars>>
    /\ UNCHANGED <<lambda_espalhada_nm, fig>>

\* lines 173-182: rows were parsed; the temperature factor is applied (its
\* value, an exponential, is not represented) and the x axis is chosen
MainHasData ==
    /\ pc = "parsed"
    /\ Len(freq_cm) # 0
    /\ pc' = IF plot_raman_shift THEN "plot" ELSE "convert"
    /\ UNCHANGED <<exc, geomVars, inpVars, runVars, scanVars, plotVars>>

\* lines 206-225: the figure is drawn and saved
SaveFig ==
    /\ pc = "plot"
    /\ fig' = [written |-> TRUE,
               fig_name |-> jobname \o PNG,
               x_data |-> IF plot_raman_shift THEN freq_cm
                          ELSE lambda_espalhada_nm,
               points |-> Len(activity)]
    /\ printed' = Append(printed, "espectro salvo")
    /\ pc' = "done"
    /\ UNCHANGED <<exc, geomVars, inpVars, runVars, scanVars>>
    /\ UNCHANGED lambda_espalhada_nm

---------------------------------------------------------------------------
(* The inputs and the specifications *)

\* every text of at most n characters
TextsOf(chars, n) == UNION {[1..k -> chars] : k \in 0..n}

\* the file without the "\n" that ends its last line
Chop(file) ==
    IF file = <<>> \/ file[Len(file)] = <<>> THEN file
    ELSE [file EXCEPT ![Len(file)] = SubSeq(@, 1, Len(@) - 1)]

CountLines ==
    {<<Digits[k + 1], "\n">> : k \in 0..(MaxAtoms + 1)}
        \cup {<<" ", "1", " ", "\n">>, <<"-", "1", "\n">>, <<"x", "\n">>}

Comment == <<"c", "\n">>

AtomH == <<"H", " ", "0", " ", "0", " ", "0", "\n">>

AtomC == <<"C", " ", "1", " ", "0", " ", "0", "\n">>

\* the geometry files: a first line alone, or a first line, a comment line
\* and at most MaxAtoms + 1 atom lines, the last line of the file with or
\* without its "\n"; and the empty file
GeomFiles ==
    LET bodies == {<<>>} \cup
                  {<<Comment>> \o atoms :
                      atoms \in FilesOf({AtomH, AtomC}, MaxAtoms + 1)}
        whole == {<<first>> \o body : first \in CountLines, body \in bodies}
    IN  whole \cup {Chop(g) : g \in whole} \cup {<<>>}

\* a one-atom geometry
GeomOneAtom == <<<<"1", "\n">>, Comment, AtomH>>

\* main's call of the converter (line 195)
ModoMain == <<"S", "t", "o", "k", "e", "s">>

\* gerar_input_orca on every geometry file
InitGen ==
    /\ pc = "gerar"
    /\ ScanStart
    /\ Fresh
    /\ out_lines = <<>>
    /\ molecule \in GeomFiles
    /\ jobname = <<"a">>
    /\ plot_raman_shift = FALSE
    /\ laser_wavelength_nm = 1
    /\ modo = ModoMain

GenNext ==
    \/ GerarWrite
    \/ GerarValueError
    \/ GerarIndexError

SpecGen == InitGen /\ [][GenNext]_vars

\* gerar_input_orca then rodar_orca on every job name
InitPath ==
    /\ pc = "gerar"
    /\ ScanStart
    /\ Fresh
    /\ out_lines = <<>>
    /\ molecule = GeomOneAtom
    /\ jobname \in TextsOf({"a", ".", "i", "n", "p"}, MaxJob)
    /\ plot_raman_shift = FALSE
    /\ laser_wavelength_nm = 1
    /\ modo = ModoMain

PathNext ==
    \/ GerarWrite
    \/ RodarRuns
    \/ RodarNotInstalled

SpecPath == InitPath /\ [][PathNext]_vars

\* laser wavelengths whose wavenumbers are 1e-7, 1e-6, 2e-6 and 10 cm^-1
LaserWavelengths == {10 ^ 9, 10 ^ 8, 5 * (10 ^ 7), 10}

\* frequencies around the laser wavenumbers, of both signs
Frequencies == ((0 - MaxWN)..MaxWN) \cup {10 ^ 8, 2 * (10 ^ 8), 10 ^ 9}

Modos ==
    {ModoMain, <<"S", "T", "O", "K", "E", "S">>,
     <<"A", "n", "t", "i", "-", "S", "t", "o", "k", "e", "s">>}

\* the converter called on every array of at most MaxFreqs frequencies
InitConv ==
    /\ pc = "convert"
    /\ Fresh
    /\ out_lines = <<>>
    /\ pos = 0
    /\ raman_section_found = FALSE
    /\ freq_cm \in FilesOf(Frequencies, MaxFreqs)
    /\ activity = <<>>
    /\ rows = <<>>
    /\ molecule = <<>>
    /\ jobname = <<>>
    /\ plot_raman_shift = FALSE
    /\ laser_wavelength_nm \in LaserWavelengths
    /\ modo \in Modos

SpecConv == InitConv /\ [][Convert]_vars

\* main: lines 146-225
InitMain ==
    /\ pc = "gerar"
    /\ ScanStart
    /\ Fresh
    /\ out_lines = <<>>
    /\ molecule \in {GeomOneAtom, <<<<"x", "\n">>>>, <<>>}
    /\ jobname \in {<<"a">>, <<"a">> \o EXT_INP}
    /\ plot_raman_shift \in BOOLEAN
    /\ laser_wavelength_nm \in {1, 10 ^ 9}
    /\ modo = ModoMain

MainNext ==
    \/ GerarWrite
    \/ GerarValueError
    \/ GerarIndexError
    \/ RodarRuns
    \/ RodarNotInstalled
    \/ ParseNext
    \/ MainNoData
    \/ MainHasData
    \/ Convert
    \/ SaveFig

SpecMain == InitMain /\ [][MainNext]_vars

---------------------------------------------------------------------------
(* Properties of parse_raman_output *)

\* first position >= i whose character is in stops (Len(s)+1 if none)
RunUntil(s, i, stops) ==
    CHOOSE j \in i..(Len(s) + 1) :
        /\ \A k \in i..(j - 1) : s[k] \notin stops
        /\ (j = Len(s) + 1 \/ s[j] \in stops)

\* the whitespace-separated fields of a line
RECURSIVE Fields(_)
Fields(s) ==
    LET a == RunEnd(s, 1, Space)
    IN  IF a > Len(s) THEN <<>>
        ELSE LET b == RunUntil(s, a, Space)
             IN  <<SubSeq(s, a, b - 1)>> \o Fields(SubSeq(s, b, Len(s)))

\* digits with at most one decimal point
LexicalShape(tok) ==
    /\ \A i \in 1..Len(tok) : IsNumChar(tok[i])
    /\ \E i \in 1..Len(tok) : IsDigit(tok[i])
    /\ Cardinality({i \in 1..Len(tok) : tok[i] = "."}) <= 1

HasMarker(i) == Contains(out_lines[i], MARKER)

\* line i stands strictly after the first title line
AfterMarker(i) == \E j \in 1..(i - 1) : HasMarker(j)

IsPrefix(s, t) == Len(s) <= Len(t) /\ SubSeq(t, 1, Len(s)) = s

\* C1: for every output file parse_raman_output returns two sequences of
\* equal length, whose i-th elements are the frequency and the activity
\* fields of the i-th accepted line, in file order, every accepted line
\* standing strictly after the first title line.
C1_ParseReturnsAlignedRows ==
    /\ pc # "raised"
    /\ Len(freq_cm) = Len(rows)
    /\ Len(activity) = Len(rows)
    /\ \A i \in 1..Len(rows) :
           /\ i > 1 => rows[i - 1] < rows[i]
           /\ AfterMarker(rows[i])
           /\ freq_cm[i] = float(Fields(out_lines[rows[i]])[2])
           /\ activity[i] = float(Fields(out_lines[rows[i]])[3])

\* a line the claim C2 says ends the scan
EndsScanAsClaimed(i) ==
    /\ AfterMarker(i)
    /\ ~Skippable(out_lines[i])
    /\ ~pattern(out_lines[i]).ok

\* C2 as stated: once in-section, the first line that is neither skippable
\* nor a match of the row pattern ends the scan, and no later line is read.
C2_FirstNonRowEndsScan ==
    \A i \in 1..pos : EndsScanAsClaimed(i) => (pos = i /\ pc # "parse")

\* C2 as amended: the same for lines that do not hold the section title; a
\* line holding it is consumed and the scan goes on.
C2_FirstNonRowNonTitleEndsScan ==
    \A i \in 1..pos :
        (EndsScanAsClaimed(i) /\ ~HasMarker(i)) => (pos = i /\ pc # "parse")

\* C2 witness: the scan ended on a line after a row was accepted, and a
\* line that matches the pattern stands unread after it.
C2_Witness ==
    /\ pc = "parsed"
    /\ rows # <<>>
    /\ pos > 0
    /\ EndsScanAsClaimed(pos) /\ ~HasMarker(pos)
    /\ \E j \in (pos + 1)..Len(out_lines) :
           pattern(out_lines[j]).ok /\ ~HasMarker(j)

\* a line shaped as a row: an index with its colon, then three fields
RowLike(line) ==
    /\ Len(Fields(line)) >= 4
    /\ LET head == Fields(line)[1]
       IN  /\ Len(head) >= 2
           /\ head[Len(head)] = ":"
           /\ \A k \in 1..(Len(head) - 1) : IsDigit(head[k])

IllShaped(line) == \E k \in 2..4 : ~LexicalShape(Fields(line)[k])

\* C3: a row is accepted only if its three fields are digits with a single
\* decimal point, and an in-section row with a field outside that shape
\* ends the scan silently: it is not accepted, not skipped, and nothing is
\* raised.
C3_IllShapedRowEndsScanSilently ==
    /\ \A i \in 1..Len(rows) : ~IllShaped(out_lines[rows[i]])
    /\ \A i \in 1..pos :
           (/\ AfterMarker(i)
            /\ ~HasMarker(i)
            /\ ~Skippable(out_lines[i])
            /\ RowLike(out_lines[i])
            /\ IllShaped(out_lines[i]))
               => (pos = i /\ pc = "parsed" /\ exc = "none")

NoMarkerInFile == \A i \in 1..Len(out_lines) : ~HasMarker(i)

\* C4: when no line of the file holds the section title, the result is two
\* empty sequences and nothing is raised, whatever the lines are.
C4_NoMarkerNoRows ==
    NoMarkerInFile =>
        /\ freq_cm = <<>>
        /\ activity = <<>>
        /\ pc \in {"parse", "parsed"}
        /\ exc = "none"

\* C4 witness: a file without the title, holding a line that matches the
\* row pattern, has been read to its end.
C4_Witness ==
    /\ pc = "parsed"
    /\ NoMarkerInFile
    /\ pos = Len(out_lines)
    /\ \E i \in 1..Len(out_lines) : pattern(out_lines[i]).ok

\* C10: the flag never goes back to false; a title line met in-section is
\* consumed with the scan going on and the result lists untouched; the
\* lists only ever grow at their end.
C10_SectionIsMonotonic ==
    [][/\ raman_section_found => raman_section_found'
       /\ (/\ pc = "parse"
           /\ raman_section_found
           /\ pos < Len(out_lines)
           /\ Contains(out_lines[pos + 1], MARKER))
              => (/\ pc' = "parse"
                  /\ exc' = exc
                  /\ pos' = pos + 1
                  /\ freq_cm' = freq_cm
                  /\ activity' = activity)
       /\ IsPrefix(freq_cm, freq_cm')
       /\ IsPrefix(activity, activity')]_vars

\* C10 witness: a row before and a row after a second title line are both
\* in the result.
C10_Witness ==
    \E m1, r1, m2, r2 \in 1..pos :
        /\ m1 < r1 /\ r1 < m2 /\ m2 < r2
        /\ HasMarker(m1) /\ HasMarker(m2)
        /\ rows = <<r1, r2>>
        /\ Len(freq_cm) = 2

---------------------------------------------------------------------------
(* Properties of gerar_input_orca and rodar_orca *)

\* the lines of a text, each with its "\n" (the last may lack it)
RECURSIVE SplitLines(_)
SplitLines(text) ==
    IF text = <<>> THEN <<>>
    ELSE LET nl == RunUntil(text, 1, {"\n"})
         IN  IF nl > Len(text) THEN <<text>>
             ELSE <<SubSeq(text, 1, nl)>>
                      \o SplitLines(SubSeq(text, nl + 1, Len(text)))

\* C5: for a geometry file that declares natoms = k and holds its k atom
\* lines, the written file is, line by line, the template header, then
\* lines 3..k+2 of the geometry file verbatim, then a line holding "*" alone.
C5_InputHoldsDeclaredCoordinates ==
    (/\ pc = "rodar"
     /\ int(Strip(molecule[1])) >= 0
     /\ Len(molecule) >= int(Strip(molecule[1])) + 2)
        => LET k == int(Strip(molecule[1]))
           IN  SplitLines(inp_content) =
                   SplitLines(Header(Method, Basis))
                       \o SubSeq(molecule, 3, k + 2)
                       \o <<(<<"*", "\n">>)>>

\* C6: for the path gerar_input_orca produced from any job name, the path
\* rodar_orca writes to and returns is the job name followed by ".out".
C6_OutFileIsJobnameOut ==
    out_file # <<>> => out_file = jobname \o EXT_OUT

\* C8: whatever happened to the external program (exit zero, exit nonzero,
\* not installed), rodar_orca returned the path without raising and main
\* went on to parse the file.
C8_RodarNeverRaises ==
    orca # "none" =>
        /\ exc # "FileNotFoundError"
        /\ out_file = OutFileOf(inp_file)
        /\ pc # "rodar"
        /\ pc = "raised" => pos > 0

---------------------------------------------------------------------------
(* Properties of main and of the converter *)

Launched == orca \in {"exit zero", "exit nonzero"}

\* C7: with an empty parse result main prints its message and returns
\* before the conversion and the plot, and no figure is written; a figure
\* is written only when at least one row was parsed, under the job's name,
\* after the input file was written and the external program was run.
C7_FigureOnlyWithRows ==
    /\ (pc = "done" /\ Len(freq_cm) = 0) =>
           /\ fig = NoFig
           /\ lambda_espalhada_nm = <<>>
           /\ printed =
                  <<"input criado", "calculo finalizado", "sem dados de Raman">>
    /\ pc \in {"convert", "plot"} => Len(freq_cm) >= 1
    /\ fig.written =>
           /\ Len(freq_cm) >= 1
           /\ fig.points = Len(freq_cm)
           /\ fig.fig_name = jobname \o PNG
           /\ inp_file = jobname \o EXT_INP
           /\ inp_content # <<>>
           /\ Launched
           /\ printed =
                  <<"input criado", "calculo finalizado", "espectro salvo">>

\* C7 witness: the program failed, its output holds the title and no row,
\* and main has returned with its message and without a figure.
C7_Witness ==
    /\ pc = "done"
    /\ orca = "exit nonzero"
    /\ \E i \in 1..Len(out_lines) : HasMarker(i)
    /\ freq_cm = <<>>
    /\ fig = NoFig
    /\ printed[Len(printed)] = "sem dados de Raman"

\* the scattered wavenumber before the clamp, as the claim C9 states it
NetShift(f) ==
    IF lower(modo) = STOKES
    THEN LaserCmInv(laser_wavelength_nm) - f
    ELSE LaserCmInv(laser_wavelength_nm) + f

\* C9: in either mode the divisor of the inversion is 1e-6 exactly when the
\* scattered wavenumber is at most 1e-6 and the scattered wavenumber itself
\* otherwise, so it is never below 1e-6, the division is never by zero, and
\* there is one positive wavelength for each input frequency.
C9_DivisorClamped ==
    pc = "plot" =>
        /\ Len(lambda_espalhada_nm) = Len(freq_cm)
        /\ \A i \in 1..Len(freq_cm) :
               LET w == lambda_espalhada_nm[i]
                   x == NetShift(freq_cm[i])
               IN  /\ x <= Eps => w.den = Eps
                   /\ x > Eps => w.den = x
                   /\ w.den >= Eps
                   /\ ~w.inf
                   /\ w.num > 0 /\ w.den > 0

\* C9 witness: a Stokes conversion of a frequency equal to the laser
\* wavenumber (zero net shift), next to one that is not clamped.
C9_Witness ==
    /\ pc = "plot"
    /\ lower(modo) = STOKES
    /\ \E i, j \in 1..Len(freq_cm) :
           /\ freq_cm[i] = LaserCmInv(laser_wavelength_nm)
           /\ lambda_espalhada_nm[i].den = Eps
           /\ lambda_espalhada_nm[j].den > Eps

====
